---- MODULE Spec2Model ----
(***************************************************************************)
(* Model of backend/scripts/convert-addresses.py: the Bech32 encoder of    *)
(* Cardano script addresses (bit regrouping, polymod checksum, character   *)
(* mapping, hex decoding and network selection).                           *)
(*                                                                         *)
(* Python strings are sequences of one-character strings, Python lists are *)
(* sequences, Python's None is the record None, and a raised ValueError is *)
(* the outcome "ValueError" of the call.                                   *)
(***************************************************************************)
EXTENDS Integers, Sequences, FiniteSets

VARIABLES
    pc,             \* which call has been made last
    cb_data,        \* convertbits: argument data
    cb_frombits,    \* convertbits: argument frombits
    cb_tobits,      \* convertbits: argument tobits
    cb_pad,         \* convertbits: argument pad
    cb_acc,         \* convertbits: acc when the for loop has ended
    cb_bits,        \* convertbits: bits when the for loop has ended
    cb_result,      \* convertbits: the value returned
    rt_result,      \* the value returned by converting cb_result back
    hrp,            \* bech32_*: argument hrp
    data,           \* bech32_*: argument data
    checksum,       \* value returned by bech32_create_checksum(hrp, data)
    encoded,        \* value returned by bech32_encode(hrp, data)
    data2,          \* data with one symbol replaced
    checksum2,      \* value returned by bech32_create_checksum(hrp, data2)
    pm_values,      \* bech32_polymod: argument values
    pm_i,           \* bech32_polymod: number of values consumed
    pm_chk,         \* bech32_polymod: chk
    script_hash,    \* script_hash_to_address: argument script_hash
    network,        \* script_hash_to_address: argument network
    addr            \* script_hash_to_address: its locals and its outcome

vars == <<pc, cb_data, cb_frombits, cb_tobits, cb_pad, cb_acc, cb_bits,
          cb_result, rt_result, hrp, data, checksum, encoded, data2,
          checksum2, pm_values, pm_i, pm_chk, script_hash, network, addr>>

cbVars == <<cb_data, cb_frombits, cb_tobits, cb_pad, cb_acc, cb_bits,
            cb_result, rt_result>>
chkVars == <<hrp, data, checksum, encoded, data2, checksum2>>
pmVars == <<pm_values, pm_i, pm_chk>>
addrVars == <<script_hash, network, addr>>

-----------------------------------------------------------------------------
(* Bounds of the model. *)

MaxData == 5        \* longest data given to convertbits
MaxPayload == 3     \* longest payload given to the checksum functions
MaxHrpLen == 1      \* longest generated human-readable prefix
MaxHashLen == 5     \* longest script_hash string

-----------------------------------------------------------------------------
(* Python's integer operators on non-negative integers. *)

Shl(a, n) == a * 2^n
Shr(a, n) == a \div 2^n

(* One bit at a time. *)
RECURSIVE AndBits(_, _)
AndBits(a, b) ==
    IF a = 0 \/ b = 0 THEN 0
    ELSE (a % 2) * (b % 2) + 2 * AndBits(a \div 2, b \div 2)

RECURSIVE OrBits(_, _)
OrBits(a, b) ==
    IF a = 0 THEN b
    ELSE IF b = 0 THEN a
    ELSE (IF a % 2 = 1 \/ b % 2 = 1 THEN 1 ELSE 0)
         + 2 * OrBits(a \div 2, b \div 2)

RECURSIVE XorBits(_, _)
XorBits(a, b) ==
    IF a = 0 THEN b
    ELSE IF b = 0 THEN a
    ELSE ((a + b) % 2) + 2 * XorBits(a \div 2, b \div 2)

(* The same operators on 5-bit digits, tabulated. *)
And32 == [a \in 0..31 |-> [b \in 0..31 |-> AndBits(a, b)]]
Or32 == [a \in 0..31 |-> [b \in 0..31 |-> OrBits(a, b)]]
Xor32 == [a \in 0..31 |-> [b \in 0..31 |-> XorBits(a, b)]]

(* a & b, a | b, a ^ b: five bits at a time. *)
RECURSIVE BitAnd(_, _)
BitAnd(a, b) ==
    IF a = 0 \/ b = 0 THEN 0
    ELSE And32[a % 32][b % 32] + 32 * BitAnd(a \div 32, b \div 32)

RECURSIVE BitOr(_, _)
BitOr(a, b) ==
    IF a = 0 THEN b
    ELSE IF b = 0 THEN a
    ELSE Or32[a % 32][b % 32] + 32 * BitOr(a \div 32, b \div 32)

RECURSIVE BitXor(_, _)
BitXor(a, b) ==
    IF a = 0 THEN b
    ELSE IF b = 0 THEN a
    ELSE Xor32[a % 32][b % 32] + 32 * BitXor(a \div 32, b \div 32)

(* None and a returned list. *)
None == [isNone |-> TRUE, list |-> <<>>]
Some(l) == [isNone |-> FALSE, list |-> l]

-----------------------------------------------------------------------------
(* convertbits *)

(* The while loop: emit tobits-wide chunks while enough bits are buffered. *)
RECURSIVE convertbits_while(_, _, _, _)
convertbits_while(acc, bits, ret, tobits) ==
    IF bits >= tobits
    THEN convertbits_while(acc, bits - tobits,
             Append(ret, BitAnd(Shr(acc, bits - tobits), Shl(1, tobits) - 1)),
             tobits)
    ELSE [acc |-> acc, bits |-> bits, ret |-> ret]

(* Variant: max_acc keeps tobits bits only. *)
RECURSIVE convertbits_for_mut_mask(_, _, _, _)
convertbits_for_mut_mask(st, values, frombits, tobits) ==
    IF values = <<>> THEN st
    ELSE LET max_acc == Shl(1, tobits) - 1
             acc == BitAnd(BitOr(Shl(st.acc, frombits), Head(values)), max_acc)
             bits == st.bits + frombits
         IN convertbits_for_mut_mask(
                convertbits_while(acc, bits, st.ret, tobits),
                Tail(values), frombits, tobits)

(* The for loop over data, from the state st = [acc, bits, ret]. *)
RECURSIVE convertbits_for(_, _, _, _)
convertbits_for(st, values, frombits, tobits) ==
    IF values = <<>> THEN st
    ELSE LET max_acc == Shl(1, frombits + tobits - 1) - 1
             acc == BitAnd(BitOr(Shl(st.acc, frombits), Head(values)), max_acc)
             bits == st.bits + frombits
         IN convertbits_for(convertbits_while(acc, bits, st.ret, tobits),
                            Tail(values), frombits, tobits)

(* acc, bits and ret when all the input is consumed. *)
convertbits_loop(values, frombits, tobits) ==
    convertbits_for([acc |-> 0, bits |-> 0, ret |-> <<>>], values,
                    frombits, tobits)

(* Variant: the test bits >= frombits is left out. *)
convertbits_mut_or(values, frombits, tobits, pad) ==
    LET st == convertbits_loop(values, frombits, tobits)
        maxv == Shl(1, tobits) - 1
        rest == BitAnd(Shl(st.acc, tobits - st.bits), maxv)
    IN IF pad
       THEN IF st.bits # 0 THEN Some(Append(st.ret, rest)) ELSE Some(st.ret)
       ELSE IF rest # 0 THEN None ELSE Some(st.ret)

(* Variant: the padding chunk is not shifted up to fill the width. *)
convertbits_mut_pad(values, frombits, tobits, pad) ==
    LET st == convertbits_loop(values, frombits, tobits)
        maxv == Shl(1, tobits) - 1
        rest == BitAnd(Shl(st.acc, tobits - st.bits), maxv)
    IN IF pad
       THEN IF st.bits # 0 THEN Some(Append(st.ret, BitAnd(st.acc, maxv)))
            ELSE Some(st.ret)
       ELSE IF st.bits >= frombits \/ rest # 0 THEN None ELSE Some(st.ret)

(* convertbits(data, frombits, tobits, pad): None, or the list returned. *)
convertbits(values, frombits, tobits, pad) ==
    LET st == convertbits_loop(values, frombits, tobits)
        maxv == Shl(1, tobits) - 1
        rest == BitAnd(Shl(st.acc, tobits - st.bits), maxv)
    IN IF pad
       THEN IF st.bits # 0 THEN Some(Append(st.ret, rest)) ELSE Some(st.ret)
       ELSE IF st.bits >= frombits \/ rest # 0 THEN None ELSE Some(st.ret)

-----------------------------------------------------------------------------
(* bech32_polymod, bech32_hrp_expand, bech32_create_checksum, bech32_encode *)

GEN == <<996825010, 642813549, 513874426, 1027748829, 705979059>>

BECH32_CHARSET ==
    <<"q", "p", "z", "r", "y", "9", "x", "8", "g", "f", "2", "t", "v", "d",
      "w", "0", "s", "3", "j", "n", "5", "4", "k", "h", "c", "e", "6", "m",
      "u", "a", "7", "l">>

(* ord(x) of the characters the model builds prefixes from. *)
ord(x) ==
    CASE x = "a" -> 97  [] x = "d" -> 100 [] x = "r" -> 114 [] x = "_" -> 95
      [] x = "t" -> 116 [] x = "e" -> 101 [] x = "s" -> 115 [] x = "1" -> 49
      [] x = "~" -> 126 [] x = "A" -> 65  [] x = " " -> 32

(* The inner loop: chk ^= GEN[i] if ((b >> i) & 1) else 0, for i in range(n). *)
RECURSIVE polymod_gen(_, _, _, _)
polymod_gen(chk, b, i, n) ==
    IF i >= n THEN chk
    ELSE polymod_gen(
             BitXor(chk, IF BitAnd(Shr(b, i), 1) # 0 THEN GEN[i + 1] ELSE 0),
             b, i + 1, n)

(* Variant: the inner loop runs over range(4). *)
polymod_iter_mut_range(chk, value) ==
    LET b == Shr(chk, 25)
    IN polymod_gen(BitXor(Shl(BitAnd(chk, 33554431), 5), value), b, 0, 4)

(* Variant: the mask is 0x3ffffff. *)
polymod_iter_mut_mask(chk, value) ==
    LET b == Shr(chk, 25)
    IN polymod_gen(BitXor(Shl(BitAnd(chk, 67108863), 5), value), b, 0, 5)

(* One iteration of the outer loop of bech32_polymod. *)
polymod_iter(chk, value) ==
    LET b == Shr(chk, 25)
    IN polymod_gen(BitXor(Shl(BitAnd(chk, 33554431), 5), value), b, 0, 5)

(* The outer loop, from chk over the remaining values.  chk is an integer *)
(* after each iteration (testing it makes TLC compute it there and then). *)
RECURSIVE polymod_from(_, _)
polymod_from(chk, values) ==
    IF values = <<>> THEN chk
    ELSE LET next == polymod_iter(chk, Head(values))
         IN CASE next \in Int -> polymod_from(next, Tail(values))

bech32_polymod(values) == polymod_from(1, values)

bech32_hrp_expand(h) ==
    [k \in 1..Len(h) |-> Shr(ord(h[k]), 5)] \o <<0>>
        \o [k \in 1..Len(h) |-> BitAnd(ord(h[k]), 31)]

(* Variant: five symbols are extracted. *)
bech32_create_checksum_mut_count(h, d) ==
    LET values == bech32_hrp_expand(h) \o d
        polymod == BitXor(bech32_polymod(values \o <<0, 0, 0, 0, 0, 0>>), 1)
    IN [i \in 1..5 |-> BitAnd(Shr(polymod, 5 * (5 - (i - 1))), 31)]

(* Variant: the polymod is not XORed with 1. *)
bech32_create_checksum_mut_xor(h, d) ==
    LET values == bech32_hrp_expand(h) \o d
        polymod == bech32_polymod(values \o <<0, 0, 0, 0, 0, 0>>)
    IN [i \in 1..6 |-> BitAnd(Shr(polymod, 5 * (5 - (i - 1))), 31)]

bech32_create_checksum(h, d) ==
    LET values == bech32_hrp_expand(h) \o d
        polymod == BitXor(bech32_polymod(values \o <<0, 0, 0, 0, 0, 0>>), 1)
    IN [i \in 1..6 |-> BitAnd(Shr(polymod, 5 * (5 - (i - 1))), 31)]

(* Variant: the separator is left out. *)
bech32_encode_mut_sep(h, d) ==
    LET combined == d \o bech32_create_checksum(h, d)
    IN h \o [k \in 1..Len(combined) |-> BECH32_CHARSET[combined[k] + 1]]

bech32_encode(h, d) ==
    LET combined == d \o bech32_create_checksum(h, d)
    IN h \o <<"1">>
         \o [k \in 1..Len(combined) |-> BECH32_CHARSET[combined[k] + 1]]

-----------------------------------------------------------------------------
(* script_hash_to_address *)

HexLower == <<"0", "1", "2", "3", "4", "5", "6", "7", "8", "9",
              "a", "b", "c", "d", "e", "f">>
HexUpper == <<"A", "B", "C", "D", "E", "F">>

IsHexDigit(c) ==
    \/ \E k \in 1..16 : HexLower[k] = c
    \/ \E k \in 1..6 : HexUpper[k] = c

hex_value(c) ==
    IF \E k \in 1..16 : HexLower[k] = c
    THEN (CHOOSE k \in 1..16 : HexLower[k] = c) - 1
    ELSE (CHOOSE k \in 1..6 : HexUpper[k] = c) + 9

(* The vertical tab, '\x0b': the string holds the character itself. *)
VerticalTab == ""

(* ASCII whitespace, which bytes.fromhex skips between bytes: the space *)
(* and '\t', '\n', '\x0b', '\x0c', '\r'.                                *)
IsSpace(c) == c \in {" ", "\t", "\n", VerticalTab, "\f", "\r"}

(* str.replace('0x', ''): every non-overlapping '0x', left to right. *)
RECURSIVE str_replace_0x(_)
str_replace_0x(s) ==
    IF s = <<>> THEN <<>>
    ELSE IF Len(s) >= 2 /\ s[1] = "0" /\ s[2] = "x"
    THEN str_replace_0x(SubSeq(s, 3, Len(s)))
    ELSE <<Head(s)>> \o str_replace_0x(Tail(s))

(* bytes.fromhex: [ok, bytes]; ok is FALSE when ValueError is raised. *)
RECURSIVE bytes_fromhex_from(_, _)
bytes_fromhex_from(s, out) ==
    IF s = <<>> THEN [ok |-> TRUE, bytes |-> out]
    ELSE IF IsSpace(Head(s)) THEN bytes_fromhex_from(Tail(s), out)
    ELSE IF Len(s) >= 2 /\ IsHexDigit(s[1]) /\ IsHexDigit(s[2])
    THEN bytes_fromhex_from(SubSeq(s, 3, Len(s)),
             Append(out, 16 * hex_value(s[1]) + hex_value(s[2])))
    ELSE [ok |-> FALSE, bytes |-> <<>>]

bytes_fromhex(s) == bytes_fromhex_from(s, <<>>)

(* Variant: the prefix is chosen by network == 'testnet'. *)
script_hash_to_address_mut_prefix(s, n) ==
    LET hash_hex == str_replace_0x(s)
        dec == bytes_fromhex(hash_hex)
        header_byte == IF n = "mainnet" THEN <<113>> ELSE <<112>>
        address_bytes == header_byte \o dec.bytes
        five_bit_data == convertbits(address_bytes, 8, 5, TRUE)
        prefix == IF n = "testnet" THEN <<"a", "d", "d", "r", "_", "t", "e", "s", "t">>
                  ELSE <<"a", "d", "d", "r">>
    IN IF ~dec.ok
       THEN [outcome |-> "ValueError", hash_hex |-> hash_hex,
             hash_bytes |-> <<>>, header_byte |-> <<>>,
             address_bytes |-> <<>>, five_bit_data |-> <<>>,
             prefix |-> <<>>, address |-> <<>>]
       ELSE [outcome |-> "return", hash_hex |-> hash_hex,
             hash_bytes |-> dec.bytes, header_byte |-> header_byte,
             address_bytes |-> address_bytes,
             five_bit_data |-> five_bit_data.list,
             prefix |-> prefix,
             address |-> bech32_encode(prefix, five_bit_data.list)]

(* The locals of the call and its outcome: "return" with the address, or *)
(* "ValueError" raised by bytes.fromhex.                                  *)
script_hash_to_address(s, n) ==
    LET hash_hex == str_replace_0x(s)
        dec == bytes_fromhex(hash_hex)
        header_byte == IF n = "mainnet" THEN <<113>> ELSE <<112>>
        address_bytes == header_byte \o dec.bytes
        five_bit_data == convertbits(address_bytes, 8, 5, TRUE)
        prefix == IF n = "mainnet" THEN <<"a", "d", "d", "r">>
                  ELSE <<"a", "d", "d", "r", "_", "t", "e", "s", "t">>
    IN IF ~dec.ok
       THEN [outcome |-> "ValueError", hash_hex |-> hash_hex,
             hash_bytes |-> <<>>, header_byte |-> <<>>,
             address_bytes |-> <<>>, five_bit_data |-> <<>>,
             prefix |-> <<>>, address |-> <<>>]
       ELSE [outcome |-> "return", hash_hex |-> hash_hex,
             hash_bytes |-> dec.bytes, header_byte |-> header_byte,
             address_bytes |-> address_bytes,
             five_bit_data |-> five_bit_data.list,
             prefix |-> prefix,
             address |-> bech32_encode(prefix, five_bit_data.list)]

-----------------------------------------------------------------------------
(* The inputs the calls are made with. *)

Seqs(S, n) == UNION {[1..k -> S] : k \in 0..n}

(* Values of w bits: all zeros, the lowest bit, the highest bit, all ones, *)
(* alternating bits.                                                      *)
ConvValues(w) == {0, 1, 2^(w - 1), 2^w - 1, 2 * ((2^w - 1) \div 3)}
WidthPairs == {<<8, 5>>, <<5, 8>>, <<3, 2>>, <<2, 3>>}

Symbols == 0..31
PayloadSymbols == {0, 1, 31}
HrpChars == {"a", "_"}
Hrps == Seqs(HrpChars, MaxHrpLen)
          \cup {<<"a", "d", "d", "r">>,
                <<"a", "d", "d", "r", "_", "t", "e", "s", "t">>}
Payloads == Seqs(PayloadSymbols, MaxPayload)

HashChars == {"0", "x", "a", "F", "g", " ", VerticalTab}
ScriptHashes == Seqs(HashChars, MaxHashLen)
Networks == {"mainnet", "testnet", "preprod"}

NoAddr == [outcome |-> "none", hash_hex |-> <<>>, hash_bytes |-> <<>>,
           header_byte |-> <<>>, address_bytes |-> <<>>,
           five_bit_data |-> <<>>, prefix |-> <<>>, address |-> <<>>]

-----------------------------------------------------------------------------
(* State machine.  The functions are pure: a call is one action, which     *)
(* records the arguments, the locals the properties speak of and the value *)
(* returned.  The loop of bech32_polymod is also taken one iteration at a  *)
(* time.                                                                   *)

Init ==
    /\ pc = "idle"
    /\ cb_data = <<>> /\ cb_frombits = 8 /\ cb_tobits = 5 /\ cb_pad = TRUE
    /\ cb_acc = 0 /\ cb_bits = 0 /\ cb_result = None /\ rt_result = None
    /\ hrp = <<>> /\ data = <<>> /\ checksum = <<>> /\ encoded = <<>>
    /\ data2 = <<>> /\ checksum2 = <<>>
    /\ pm_values = <<>> /\ pm_i = 0 /\ pm_chk = 1
    /\ script_hash = <<>> /\ network = "testnet" /\ addr = NoAddr

(* convertbits(d, frombits, tobits, pad) *)
Call_convertbits(d, frombits, tobits, pad) ==
    /\ pc = "idle"
    /\ pc' = "convertbits"
    /\ cb_data' = d
    /\ cb_frombits' = frombits
    /\ cb_tobits' = tobits
    /\ cb_pad' = pad
    /\ cb_acc' = convertbits_loop(d, frombits, tobits).acc
    /\ cb_bits' = convertbits_loop(d, frombits, tobits).bits
    /\ cb_result' = convertbits(d, frombits, tobits, pad)
    /\ UNCHANGED <<rt_result, chkVars, pmVars, addrVars>>

(* convertbits(convertbits(d, f, t, pad=True), t, f, pad=False) *)
Call_convertbits_back ==
    /\ pc = "convertbits"
    /\ cb_pad
    /\ ~cb_result.isNone
    /\ pc' = "roundtrip"
    /\ rt_result' = convertbits(cb_result.list, cb_tobits, cb_frombits, FALSE)
    /\ UNCHANGED <<cb_data, cb_frombits, cb_tobits, cb_pad, cb_acc, cb_bits,
                   cb_result, chkVars, pmVars, addrVars>>

(* bech32_create_checksum(h, d) *)
Call_bech32_create_checksum(h, d) ==
    /\ pc = "idle"
    /\ pc' = "checksum"
    /\ hrp' = h
    /\ data' = d
    /\ checksum' = bech32_create_checksum(h, d)
    /\ UNCHANGED <<encoded, data2, checksum2, cbVars, pmVars, addrVars>>

(* bech32_create_checksum(h, d2), d2 being d with the symbol at pos replaced *)
Call_bech32_create_checksum_replaced(pos, v) ==
    /\ pc = "checksum"
    /\ pos \in 1..Len(data)
    /\ v # data[pos]
    /\ pc' = "checksum2"
    /\ data2' = [data EXCEPT ![pos] = v]
    /\ checksum2' = bech32_create_checksum(hrp, data2')
    /\ UNCHANGED <<hrp, data, checksum, encoded, cbVars, pmVars, addrVars>>

(* bech32_encode(h, d) *)
Call_bech32_encode(h, d) ==
    /\ pc = "idle"
    /\ pc' = "encode"
    /\ hrp' = h
    /\ data' = d
    /\ encoded' = bech32_encode(h, d)
    /\ UNCHANGED <<checksum, data2, checksum2, cbVars, pmVars, addrVars>>

(* bech32_polymod(values), as bech32_create_checksum(h, d) calls it *)
Call_bech32_polymod(h, d) ==
    /\ pc = "idle"
    /\ pc' = "polymod"
    /\ hrp' = h
    /\ data' = d
    /\ pm_values' = bech32_hrp_expand(h) \o d \o <<0, 0, 0, 0, 0, 0>>
    /\ pm_i' = 0
    /\ pm_chk' = 1
    /\ UNCHANGED <<checksum, encoded, data2, checksum2, cbVars, addrVars>>

(* one iteration of the loop over values *)
polymod_loop ==
    /\ pc = "polymod"
    /\ pm_i < Len(pm_values)
    /\ pm_chk' = polymod_iter(pm_chk, pm_values[pm_i + 1])
    /\ pm_i' = pm_i + 1
    /\ UNCHANGED <<pc, pm_values, chkVars, cbVars, addrVars>>

(* return chk, and the rest of bech32_create_checksum *)
polymod_return ==
    /\ pc = "polymod"
    /\ pm_i = Len(pm_values)
    /\ pc' = "polymod_returned"
    /\ checksum' = [i \in 1..6 |->
                      BitAnd(Shr(BitXor(pm_chk, 1), 5 * (5 - (i - 1))), 31)]
    /\ UNCHANGED <<hrp, data, encoded, data2, checksum2, pmVars, cbVars,
                   addrVars>>

(* script_hash_to_address(s, n) *)
Call_script_hash_to_address(s, n) ==
    /\ pc = "idle"
    /\ pc' = "address"
    /\ script_hash' = s
    /\ network' = n
    /\ addr' = script_hash_to_address(s, n)
    /\ UNCHANGED <<cbVars, chkVars, pmVars>>

(* No call has been made yet: every function is called from this state, *)
(* with arguments drawn from the sets above.                             *)
Idle == pc = "idle"

NextConv ==
    \/ /\ Idle
       /\ \E wp \in WidthPairs, pad \in BOOLEAN :
            \E d \in Seqs(ConvValues(wp[1]), MaxData) :
               Call_convertbits(d, wp[1], wp[2], pad)
    \/ Call_convertbits_back

NextChecksum ==
    \/ /\ Idle
       /\ \E h \in Hrps, d \in Payloads : Call_bech32_create_checksum(h, d)
    \/ \E pos \in 1..MaxPayload, v \in Symbols :
         Call_bech32_create_checksum_replaced(pos, v)
    \/ /\ Idle
       /\ \E h \in Hrps, d \in Payloads : Call_bech32_encode(h, d)

NextPolymod ==
    \/ /\ Idle
       /\ \E h \in Hrps, d \in Payloads : Call_bech32_polymod(h, d)
    \/ polymod_loop
    \/ polymod_return

NextAddress ==
    /\ Idle
    /\ \E s \in ScriptHashes, n \in Networks : Call_script_hash_to_address(s, n)

Next == NextConv \/ NextChecksum \/ NextPolymod \/ NextAddress

Spec == Init /\ [][Next]_vars
SpecConv == Init /\ [][NextConv]_vars
SpecChecksum == Init /\ [][NextChecksum]_vars
SpecPolymod == Init /\ [][NextPolymod]_vars
SpecAddress == Init /\ [][NextAddress]_vars

-----------------------------------------------------------------------------
(* Vocabulary of the properties. *)

Addr == <<"a", "d", "d", "r">>
AddrTest == <<"a", "d", "d", "r", "_", "t", "e", "s", "t">>
CharsetChars == {BECH32_CHARSET[k] : k \in 1..32}

(* The w bits of v, most significant first, and the bits of a sequence. *)
BitsOf(v, w) == [k \in 1..w |-> (v \div 2^(w - k)) % 2]

RECURSIVE BitString(_, _)
BitString(values, w) ==
    IF values = <<>> THEN <<>>
    ELSE BitsOf(Head(values), w) \o BitString(Tail(values), w)

Zeros(n) == [k \in 1..n |-> 0]
CeilDiv(a, b) == (a + b - 1) \div b
InBits(values, w) == \A k \in 1..Len(values) : values[k] \in 0..(2^w - 1)

(* The input bits that are left when whole tobits-wide chunks are taken. *)
LeftoverCount == (Len(cb_data) * cb_frombits) % cb_tobits
LeftoverBits ==
    LET all == BitString(cb_data, cb_frombits)
    IN SubSeq(all, Len(all) - LeftoverCount + 1, Len(all))

(* s without one optional leading 0x. *)
StripLeading0x(s) ==
    IF Len(s) >= 2 /\ s[1] = "0" /\ s[2] = "x" THEN SubSeq(s, 3, Len(s)) ELSE s

Malformed(s) ==
    LET t == StripLeading0x(s)
    IN Len(t) % 2 = 1 \/ \E k \in 1..Len(t) : ~IsHexDigit(t[k])

DifferInOne(d1, d2) ==
    /\ Len(d1) = Len(d2)
    /\ Cardinality({k \in 1..Len(d1) : d1[k] # d2[k]}) = 1

-----------------------------------------------------------------------------
(* Sanity of the model: the loop taken step by step computes bech32_polymod, *)
(* and the checksum it leads to is the one bech32_create_checksum returns.   *)
PolymodStepsAgree ==
    /\ pc \in {"polymod", "polymod_returned"} =>
          pm_chk = bech32_polymod(SubSeq(pm_values, 1, pm_i))
    /\ pc = "polymod_returned" => checksum = bech32_create_checksum(hrp, data)

-----------------------------------------------------------------------------
(* C1: converting bytes to 5-bit groups with padding and back to 8-bit      *)
(* groups without padding does not return None and gives the bytes back.    *)
C1_RoundTrip ==
    (pc = "roundtrip" /\ cb_frombits = 8 /\ cb_tobits = 5) =>
        /\ ~rt_result.isNone
        /\ rt_result.list = cb_data

C1_Witness ==
    /\ pc = "roundtrip" /\ cb_frombits = 8 /\ cb_tobits = 5
    /\ Len(cb_data) = 3 /\ cb_data[3] = 255
    /\ Len(cb_result.list) = 5

(* C2: a script hash that, apart from one optional leading 0x, has odd      *)
(* length or holds a non-hex character ends in a decoding error, and no     *)
(* address is returned.                                                     *)
C2_MalformedRejected ==
    (pc = "address" /\ Malformed(script_hash)) =>
        /\ addr.outcome = "ValueError"
        /\ addr.address = <<>>

(* C3: a returned address starts with addr1 on mainnet and addr_test1       *)
(* otherwise, and every character after that is one of BECH32_CHARSET.      *)
C3_AddressShape ==
    (pc = "address" /\ addr.outcome = "return") =>
        LET start == (IF network = "mainnet" THEN Addr ELSE AddrTest) \o <<"1">>
            a == addr.address
        IN /\ Len(a) >= Len(start)
           /\ SubSeq(a, 1, Len(start)) = start
           /\ \A k \in (Len(start) + 1)..Len(a) : a[k] \in CharsetChars

C3_Witness ==
    /\ pc = "address" /\ addr.outcome = "return"
    /\ network = "mainnet"
    /\ Len(addr.hash_bytes) = 2
    /\ Len(addr.address) = 5 + 5 + 6

(* C4: replacing exactly one payload symbol by another value of 0..31       *)
(* (same prefix, same length) changes the checksum.                         *)
C4_SingleSymbolDetected ==
    (pc = "checksum2" /\ DifferInOne(data, data2)) => checksum2 # checksum

C4_Witness ==
    /\ pc = "checksum2" /\ DifferInOne(data, data2)
    /\ hrp = AddrTest
    /\ Len(data) = 3
    /\ data[3] = 1 /\ data2[3] = 17

(* C5: without padding, convertbits returns None exactly when the leftover  *)
(* bits are at least frombits many or are not all zero; otherwise it        *)
(* returns the emitted chunks and no padding chunk.                         *)
C5_NoPadNone ==
    (pc = "convertbits" /\ ~cb_pad) =>
        /\ cb_bits = LeftoverCount
        /\ cb_result.isNone <=>
              (LeftoverCount >= cb_frombits
                  \/ \E k \in 1..LeftoverCount : LeftoverBits[k] = 1)
        /\ ~cb_result.isNone =>
              /\ cb_result.list = convertbits_loop(cb_data, cb_frombits, cb_tobits).ret
              /\ Len(cb_result.list)
                    = (Len(cb_data) * cb_frombits) \div cb_tobits
              /\ BitString(cb_result.list, cb_tobits) \o LeftoverBits
                    = BitString(cb_data, cb_frombits)

C5_Witness ==
    /\ pc = "convertbits" /\ ~cb_pad
    /\ cb_frombits = 5 /\ cb_tobits = 8
    /\ cb_data = <<0, 0, 0>>
    /\ cb_bits = 7
    /\ cb_result.isNone

(* C6: mainnet gives header byte 0x71 and prefix addr; every other network  *)
(* value gives 0x70 and addr_test, and raises nothing.                      *)
C6_NetworkSelection ==
    pc = "address" =>
        /\ ~Malformed(script_hash) => addr.outcome = "return"
        /\ addr.outcome = "return" =>
              /\ addr.address_bytes = addr.header_byte \o addr.hash_bytes
              /\ network = "mainnet" =>
                    addr.header_byte = <<113>> /\ addr.prefix = Addr
              /\ network # "mainnet" =>
                    addr.header_byte = <<112>> /\ addr.prefix = AddrTest
              /\ SubSeq(addr.address, 1, Len(addr.prefix)) = addr.prefix

C6_Witness ==
    /\ pc = "address" /\ addr.outcome = "return"
    /\ network = "preprod"
    /\ addr.address_bytes = <<112, 175>>

(* C7: with padding, convertbits returns ceil(n*frombits/tobits) values of  *)
(* tobits bits whose bits are the input's bits followed by zero bits only;  *)
(* the empty input gives the empty list.                                    *)
C7_PadBitstream ==
    (pc = "convertbits" /\ cb_pad /\ InBits(cb_data, cb_frombits)) =>
        LET out == cb_result.list
            n == Len(cb_data)
        IN /\ ~cb_result.isNone
           /\ Len(out) = CeilDiv(n * cb_frombits, cb_tobits)
           /\ InBits(out, cb_tobits)
           /\ BitString(out, cb_tobits)
                 = BitString(cb_data, cb_frombits)
                     \o Zeros(Len(out) * cb_tobits - n * cb_frombits)
           /\ cb_data = <<>> => out = <<>>

C7_Witness ==
    /\ pc = "convertbits" /\ cb_pad
    /\ cb_frombits = 8 /\ cb_tobits = 5
    /\ cb_data = <<255, 170, 1>>
    /\ Len(cb_result.list) = 5

(* C8: the checksum is 6 symbols of 0..31, and the encoded string is        *)
(* len(prefix) + 1 + len(payload) + 6 characters long.                      *)
C8_ChecksumLength ==
    /\ pc \in {"checksum", "checksum2"} =>
          /\ Len(checksum) = 6
          /\ \A k \in 1..Len(checksum) : checksum[k] \in 0..31
    /\ pc = "encode" => Len(encoded) = Len(hrp) + 1 + Len(data) + 6

C8_Witness ==
    /\ pc = "encode"
    /\ hrp = Addr
    /\ Len(data) = 3
    /\ Len(encoded) = 14

(* C9: the checksum verifies: the polymod of the expanded prefix, the       *)
(* payload and the checksum is 1.                                           *)
C9_ChecksumVerifies ==
    pc = "checksum" =>
        bech32_polymod(bech32_hrp_expand(hrp) \o data \o checksum) = 1

C9_Witness ==
    /\ pc = "checksum"
    /\ hrp = AddrTest
    /\ data = <<31, 0, 1>>
    /\ checksum # <<0, 0, 0, 0, 0, 0>>

(* C10: with every value in 0..31, chk is in 0..2^30-1 after every          *)
(* iteration of bech32_polymod, and the six 5-bit symbols extracted from    *)
(* the result carry all of it.                                              *)
C10_ChkThirtyBits ==
    (pc \in {"polymod", "polymod_returned"} /\ InBits(pm_values, 5)) =>
        /\ pm_chk \in 0..(2^30 - 1)
        /\ pc = "polymod_returned" =>
              checksum[1] * 2^25 + checksum[2] * 2^20 + checksum[3] * 2^15
                + checksum[4] * 2^10 + checksum[5] * 2^5 + checksum[6]
                  = BitXor(pm_chk, 1)

C10_Witness ==
    /\ pc = "polymod"
    /\ pm_i = Len(pm_values)
    /\ pm_i >= 12
    /\ pm_chk >= 2^29

====
